---------------------------- MODULE Spec2Model ----------------------------
(***************************************************************************)
(* A model of the shell in src/src/main.rs: the REPL loop of main, the     *)
(* pipeline loop of run_command, the lexer arg_parse, the built-ins of     *)
(* run_single_command and the process plumbing of execute_piped.           *)
(*                                                                         *)
(* Text.  A string is a sequence of characters.  The characters the code   *)
(* tests for (space, tab, the pipe bar, the two quotes, the backslash,     *)
(* '>', '-', the digits) are one-character strings.  A string of several   *)
(* letters such as "echo" stands for a run of ordinary characters: the     *)
(* code never splits such a run (arg_parse appends each of its characters  *)
(* to the current word), and no run is a prefix of another, so two words   *)
(* are equal as Rust strings exactly when they are equal as sequences.     *)
(*                                                                         *)
(* Option<T> is a sequence of length 0 (None) or 1 (Some).                 *)
(***************************************************************************)
EXTENDS Integers, Sequences, FiniteSets, TLC

VARIABLES
    pc,            \* where the shell process is: "readline" (main, line 656),
                   \* "run" (inside the for loop of run_command), "wait"
                   \* (blocked in child.wait(), line 620), "loop" (main, at
                   \* the end of the body of its loop), "exited"
    line,          \* the line rl.readline returned last
    commands,      \* run_command: input.split('|')
    ith_command,   \* run_command: index of the loop, 0-based as in the code
    prev_output,   \* run_command: Option<ChildStdout>, the child whose pipe it is
    cwd,           \* the working directory of the shell process
    exit_code,     \* Option: the status the shell process ended with
    children,      \* the processes spawned for the current line, in spawn order
    stages,        \* per iteration of run_command for the current line: what was
                   \* lexed, what the redirection scan found, what was invoked
    term_out,      \* lines the shell printed on its stdout for the current line
    term_err,      \* lines the shell printed on its stderr for the current line
    opened,        \* files the shell opened for the current line, in order
    written,       \* lines a built-in wrote into a file for the current line
    waiting,       \* Option: the child the shell is blocked on in child.wait()
    fds,           \* the pipe ends and files the shell process holds open, beyond
                   \* its own stdin, stdout and stderr
    lex            \* arg_parse on its own: the line it was called with, how far
                   \* the loop over its characters is, and its locals

vars == <<pc, line, commands, ith_command, prev_output, cwd, exit_code,
          children, stages, term_out, term_err, opened, written, waiting, fds, lex>>

None == <<>>
Some(x) == <<x>>

--------------------------------------------------------------------------
(* Characters and words *)

SPACE == " "
TAB == "\t"
BAR == "|"
DQUOTE == "\""
SQUOTE == "'"
BACKSLASH == "\\"
GT == ">"

\* char::is_whitespace, on the characters of the model
IsWhitespace(c) == c \in {SPACE, TAB}

W_echo == <<"echo">>
W_pwd == <<"pwd">>
W_type == <<"type">>
W_exit == <<"exit">>
W_cd == <<"cd">>
W_tilde == <<"~">>

\* const BUILTINS
BUILTINS == {W_echo, W_exit, W_type, W_pwd, W_cd}

\* The redirection tokens the scan of run_command compares against
OP_APPEND == <<GT, GT>>
OP_APPEND_1 == <<"1", GT, GT>>
OP_APPEND_2 == <<"2", GT, GT>>

RECURSIVE join(_, _)
\* [&str]::join(sep)
join(parts, sep) ==
    IF parts = <<>> THEN <<>>
    ELSE IF Len(parts) = 1 THEN parts[1]
    ELSE parts[1] \o sep \o join(Tail(parts), sep)

RECURSIVE split(_, _)
\* str::split(char): one piece more than there are separators, empty pieces kept
split(input, sep) ==
    IF \A i \in 1..Len(input) : input[i] # sep THEN <<input>>
    ELSE LET k == CHOOSE i \in 1..Len(input) :
                      input[i] = sep /\ \A j \in 1..(i-1) : input[j] # sep
         IN  <<SubSeq(input, 1, k-1)>> \o split(SubSeq(input, k+1, Len(input)), sep)

\* str::trim: leading and trailing whitespace removed
trim(s) ==
    LET keep == {i \in 1..Len(s) : ~IsWhitespace(s[i])}
    IN  IF keep = {} THEN <<>>
        ELSE SubSeq(s, CHOOSE i \in keep : \A j \in keep : i <= j,
                       CHOOSE i \in keep : \A j \in keep : j <= i)

--------------------------------------------------------------------------
(* arg_parse: the lexer *)

arg_parse_init == [args |-> <<>>, current_arg |-> <<>>, quote_char |-> None,
                   escaped |-> FALSE]

\* a slip: arg_parse without lines 272-284, the backslash always dropped
escaped_char_alone(quote_char, c) == <<c>>

\* lines 272-288: what the character after an escaping backslash pushes
escaped_char(quote_char, c) ==
    IF quote_char = Some(DQUOTE)
    THEN IF c = DQUOTE \/ c = BACKSLASH THEN <<c>> ELSE <<BACKSLASH, c>>
    ELSE <<c>>

\* a slip: line 309 without `&& !quote_char.is_some()`
is_word_break_quoted(quote_char, c) == IsWhitespace(c)

\* line 309: `c.is_whitespace() && !quote_char.is_some()`
is_word_break(quote_char, c) == IsWhitespace(c) /\ quote_char = None

\* one iteration of the loop `for c in line.chars()`
arg_parse_char(st, c) ==
    IF st.escaped THEN
        [st EXCEPT !.current_arg = @ \o escaped_char(st.quote_char, c),
                   !.escaped = FALSE]
    ELSE IF c = BACKSLASH /\ st.quote_char # Some(SQUOTE) THEN
        [st EXCEPT !.escaped = TRUE]
    ELSE IF c = DQUOTE \/ c = SQUOTE THEN
        IF st.quote_char = None THEN [st EXCEPT !.quote_char = Some(c)]
        ELSE IF st.quote_char = Some(c) THEN [st EXCEPT !.quote_char = None]
        ELSE [st EXCEPT !.current_arg = @ \o <<c>>]
    ELSE IF is_word_break(st.quote_char, c) THEN
        IF st.current_arg # <<>>
        THEN [st EXCEPT !.args = Append(@, st.current_arg), !.current_arg = <<>>]
        ELSE st
    ELSE [st EXCEPT !.current_arg = @ \o <<c>>]

RECURSIVE arg_parse_loop(_, _)
arg_parse_loop(st, rest) ==
    IF rest = <<>> THEN st
    ELSE arg_parse_loop(arg_parse_char(st, Head(rest)), Tail(rest))

\* a slip: arg_parse without lines 323-326, the word the line ends in is lost
arg_parse_end_lost(st) == st.args

\* lines 323-327: after the loop, the last word is pushed if it is not empty
arg_parse_end(st) ==
    IF st.current_arg # <<>> THEN Append(st.args, st.current_arg) ELSE st.args

\* fn arg_parse(line: &str) -> Vec<String>
arg_parse(l) == arg_parse_end(arg_parse_loop(arg_parse_init, l))

\* a call of arg_parse, one character at a time: the line, the number of
\* characters the loop has consumed, the locals, and what the call returned
arg_parse_call(l) == [line |-> l, i |-> 0, st |-> arg_parse_init, ret |-> None]

\* no call of arg_parse is followed character by character
arg_parse_idle == arg_parse_call(<<>>)

--------------------------------------------------------------------------
(* run_command, lines 343-385: the redirection scan of one segment *)

redirect_scan_init ==
    [i |-> 0, std_out_r_append |-> FALSE, std_err_r_append |-> FALSE,
     std_out_file |-> None, std_err_file |-> None, command_args |-> <<>>,
     error_in_parsing |-> FALSE]

\* line 359: `arg == ">>" || arg == "1>>" || arg == "2>>"`
is_redirect_token(arg) == arg = OP_APPEND \/ arg = OP_APPEND_1 \/ arg = OP_APPEND_2

RECURSIVE redirect_scan(_, _)
\* `while i < raw_args.len()`; raw_args[i] of the code is raw_args[i+1] here
redirect_scan(st, raw_args) ==
    IF ~(st.i < Len(raw_args)) THEN st
    ELSE LET arg == raw_args[st.i + 1] IN
         IF is_redirect_token(arg) THEN
             IF st.i + 1 >= Len(raw_args)
             THEN [st EXCEPT !.i = @ + 1, !.error_in_parsing = TRUE]
             ELSE IF arg = OP_APPEND_2
             THEN redirect_scan([st EXCEPT !.std_err_r_append = TRUE,
                                           !.std_err_file = Some(raw_args[st.i + 2]),
                                           !.i = @ + 2], raw_args)
             ELSE redirect_scan([st EXCEPT !.std_out_r_append = TRUE,
                                           !.std_out_file = Some(raw_args[st.i + 2]),
                                           !.i = @ + 2], raw_args)
         ELSE redirect_scan([st EXCEPT !.command_args = Append(@, arg),
                                       !.i = @ + 1], raw_args)

--------------------------------------------------------------------------
(* The environment: what the operating system answers to one stage.  Each  *)
(* field is the outcome of one kind of system call made for the stage.     *)

Env == [open_out : BOOLEAN, open_err : BOOLEAN, write_ok : BOOLEAN,
        spawn : BOOLEAN, chdir : BOOLEAN, getcwd : BOOLEAN, home : BOOLEAN]

\* the text of an io::Error, whatever it is
IO_ERROR == <<"<io error>">>
\* the value of HOME when it is set
HOME_DIR == <<"/home">>
\* the directory of PATH in which the executables of the model live
PATH_DIR == <<"/bin/">>
\* the names PATH holds an executable regular file for
PATH_EXECUTABLES == {<<"ls">>}

\* fn find_executable_in_path(name) -> Option<PathBuf>
find_executable_in_path(name) ==
    IF name \in PATH_EXECUTABLES THEN Some(PATH_DIR \o name) ELSE None

\* what a call adds to the shell's terminal and to the file system
NoEffect == [out |-> <<>>, err |-> <<>>, opened |-> <<>>, written |-> <<>>]

Effects(a, b) == [out |-> a.out \o b.out, err |-> a.err \o b.err,
                  opened |-> a.opened \o b.opened, written |-> a.written \o b.written]

\* OpenOptions::new().write(true).append(a).create(true).truncate(!a).open(path)
open_options(path, append, ok) ==
    [path |-> path, append |-> append, truncate |-> ~append, ok |-> ok]

\* one half of handle_built_in_output: lines 132-154 with to_stdout, 156-177 without
built_in_sink(text, file, append, open_ok, write_ok, to_stdout) ==
    IF file # None THEN
        IF open_ok THEN
            [NoEffect EXCEPT
                !.opened = <<open_options(file[1], append, TRUE)>>,
                !.written = IF text # <<>> /\ write_ok
                            THEN <<[path |-> file[1], text |-> text]>> ELSE <<>>,
                !.err = IF text # <<>> /\ ~write_ok
                        THEN <<<<"Error writing to file ">> \o file[1] \o <<": ">> \o IO_ERROR>>
                        ELSE <<>>]
        ELSE
            [NoEffect EXCEPT
                !.opened = <<open_options(file[1], append, FALSE)>>,
                !.err = <<<<"Error opening file ">> \o file[1] \o <<": ">> \o IO_ERROR>>]
    ELSE IF text = <<>> THEN NoEffect
    ELSE IF to_stdout THEN [NoEffect EXCEPT !.out = <<text>>]
    ELSE [NoEffect EXCEPT !.err = <<text>>]

\* fn handle_built_in_output(std_out_s, std_out, std_out_append, std_err_s, std_err, std_err_append)
handle_built_in_output(std_out_s, std_out, std_out_append, std_err_s, std_err, std_err_append, env) ==
    Effects(built_in_sink(std_out_s, std_out, std_out_append,
                          env.open_out, env.write_ok, TRUE),
            built_in_sink(std_err_s, std_err, std_err_append,
                          env.open_err, env.write_ok, FALSE))

\* the paths set_current_dir can enter: every other path names no directory
DIRECTORIES == {<<"/p">>, HOME_DIR}

\* env::set_current_dir(target).is_ok(): the target is a directory, and the
\* operating system lets the shell enter it
set_current_dir_ok(target, env) == target \in DIRECTORIES /\ env.chdir

\* a slip: `let _ = env::set_current_dir(&target_path);`, the result not looked at
change_directory_unchecked(path, env) ==
    LET target_path == IF path = W_tilde THEN HOME_DIR ELSE path IN
    IF set_current_dir_ok(target_path, env)
    THEN [cwd |-> target_path, err |-> <<>>]
    ELSE [cwd |-> cwd, err |-> <<>>]

\* fn change_directory(path): the new working directory and what is printed.
\* Every directory of the model is named by an absolute path, so a successful
\* set_current_dir makes the target the working directory.
change_directory(path, env) ==
    IF path = W_tilde /\ ~env.home
    THEN [cwd |-> cwd, err |-> <<<<"cd: HOME not set">>>>]
    ELSE LET target_path == IF path = W_tilde THEN HOME_DIR ELSE path IN
         IF set_current_dir_ok(target_path, env)
         THEN [cwd |-> target_path, err |-> <<>>]
         ELSE [cwd |-> cwd,
               err |-> <<<<"cd: ">> \o path \o <<": No such file or directory">>>>]

--------------------------------------------------------------------------
(* str::parse::<i32> *)

DigitValue(c) ==
    CASE c = "0" -> 0 [] c = "1" -> 1 [] c = "2" -> 2 [] c = "3" -> 3 [] c = "4" -> 4
      [] c = "5" -> 5 [] c = "6" -> 6 [] c = "7" -> 7 [] c = "8" -> 8 [] c = "9" -> 9

IsDigit(c) == c \in {"0", "1", "2", "3", "4", "5", "6", "7", "8", "9"}

\* i32::MAX
I32_MAX == 2147483647

RECURSIVE DecimalValue(_, _)
\* the checked accumulation of the digits: Some(value), or None on overflow
DecimalValue(acc, ds) ==
    IF ds = <<>> THEN Some(acc)
    ELSE LET d == DigitValue(Head(ds)) IN
         IF acc > (I32_MAX - d) \div 10 THEN None
         ELSE DecimalValue(10 * acc + d, Tail(ds))

\* Some(n) when the word is an optional sign and at least one digit and n fits
\* in an i32, None otherwise.  (The one value -2^31, which the integers of the
\* model checker cannot hold, is not among the words of the model.)
parse_i32(w) ==
    LET signed == w # <<>> /\ w[1] \in {"-", "+"}
        ds == IF signed THEN Tail(w) ELSE w
        digits == ds # <<>> /\ \A i \in 1..Len(ds) : IsDigit(ds[i])
        m == IF digits THEN DecimalValue(0, ds) ELSE None
    IN  IF m = None THEN None
        ELSE IF signed /\ w[1] = "-" THEN Some(0 - m[1]) ELSE m

--------------------------------------------------------------------------
(* execute_piped and run_single_command.  Each returns what the call does: *)
(* ret, the Option<ChildStdout> it returns (the child whose pipe it is);   *)
(* eff, what it prints, opens and writes; spawn, the process it started;   *)
(* wait, whether it blocks in child.wait(); cwd and exit, the working      *)
(* directory after it and the status of std::process::exit, if called;     *)
(* held, the handles the locals of the call own where it blocks in wait.   *)

\* An open handle of the shell process.  A ChildStdout is the read end of the
\* pipe of a child's stdout; a File is an open redirection target.
PipeHandle(child) == [kind |-> "pipe", child |-> child, path |-> <<>>]
FileHandle(path) == [kind |-> "file", child |-> 0, path |-> path]

\* the handle an Option<ChildStdout> owns
PipeHandles(pipe) == IF pipe = None THEN {} ELSE {PipeHandle(pipe[1])}

\* a slip: the values are forgotten (std::mem::forget, into_raw_fd), not dropped
forget(owned) == owned

\* the end of the scope of values that own the handles `owned`: each value is
\* dropped, which closes its handle; none stays open
drop(owned) == {}

NoResult == [ret |-> None, eff |-> NoEffect, spawn |-> None, wait |-> FALSE,
             cwd |-> cwd, exit |-> None, held |-> {}]

\* a slip: line 558 written without take(), so that stdin_pipe keeps the pipe
stdin_not_taken(stdin_pipe) == stdin_pipe

\* line 558: `stdin_pipe.take()` moves the pipe into the command and leaves
\* None in stdin_pipe, which line 618 reads
stdin_after_take(stdin_pipe) == None

\* lines 570-584 and 590-604: the redirection file of an external command
redirect_open(file, append, ok) ==
    [NoEffect EXCEPT
        !.opened = <<open_options(file[1], append, ok)>>,
        !.err = IF ok THEN <<>> ELSE <<<<"Failed to open error file: ">> \o IO_ERROR>>]

\* a slip: child.wait() called for every child right after it is spawned
waits_for_every_child(create_pipe, stdin_pipe_now) == TRUE

\* line 618: `if !create_pipe && stdin_pipe.is_none()`, whether execute_piped
\* blocks in child.wait()
waits_for_child(create_pipe, stdin_pipe_now) == ~create_pipe /\ stdin_pipe_now = None

\* a slip: line 568 with `if` for `else if`, the file opened beside the pipe
opens_stdout_file_beside_pipe(create_pipe, std_out) == std_out # None

\* lines 565-568: `if create_pipe {...} else if let Some(output_file) = std_out`,
\* the stdout file is opened only when stdout is not a pipe
opens_stdout_file(create_pipe, std_out) == ~create_pipe /\ std_out # None

\* fn execute_piped(command, args, stdin_pipe, std_out, std_out_append,
\*                  std_err, std_err_append, create_pipe) -> Option<ChildStdout>
execute_piped(command, args, stdin_pipe, std_out, std_out_append, std_err, std_err_append, create_pipe, env) ==
    IF find_executable_in_path(command) = None THEN
        [NoResult EXCEPT !.eff.out = <<command \o <<": command not found">>>>]
    ELSE
        LET stdin == stdin_pipe
            stdin_pipe_now == stdin_after_take(stdin_pipe)
            out_file == opens_stdout_file(create_pipe, std_out)
            out_eff == IF out_file
                       THEN redirect_open(std_out, std_out_append, env.open_out)
                       ELSE NoEffect
            err_eff == IF std_err # None
                       THEN redirect_open(std_err, std_err_append, env.open_err)
                       ELSE NoEffect
        IN  IF out_file /\ ~env.open_out THEN
                [NoResult EXCEPT !.eff = out_eff]
            ELSE IF std_err # None /\ ~env.open_err THEN
                [NoResult EXCEPT !.eff = Effects(out_eff, err_eff)]
            ELSE IF env.spawn THEN
                [NoResult EXCEPT
                    !.ret = IF create_pipe THEN Some(Len(children) + 1) ELSE None,
                    !.eff = Effects(out_eff, err_eff),
                    !.spawn = Some([command |-> command, args |-> args,
                                    stdin |-> stdin,
                                    stdout |-> IF create_pipe THEN "pipe"
                                               ELSE IF std_out # None THEN "file"
                                               ELSE "inherit",
                                    stdout_file |-> IF out_file THEN std_out ELSE None,
                                    stderr |-> IF std_err # None THEN "file" ELSE "inherit",
                                    stderr_file |-> std_err,
                                    create_pipe |-> create_pipe]),
                    !.wait = waits_for_child(create_pipe, stdin_pipe_now),
                    \* process_command owns the pipe it was given as stdin
                    \* (560) and the files it was given (578, 598)
                    !.held = PipeHandles(stdin)
                             \cup (IF out_file THEN {FileHandle(std_out[1])} ELSE {})
                             \cup (IF std_err # None THEN {FileHandle(std_err[1])}
                                   ELSE {})]
            ELSE
                [NoResult EXCEPT
                    !.eff = Effects(Effects(out_eff, err_eff),
                                    [NoEffect EXCEPT !.err =
                                        <<<<"Failed to execute ">> \o command
                                          \o <<": ">> \o IO_ERROR>>])]

\* lines 456-476: the `type` built-in
type_built_in(parts, std_out_file, std_out_r_append, std_err_file, std_err_r_append, env) ==
    IF parts = <<>> THEN NoEffect
    ELSE LET arg == parts[1]
             path == find_executable_in_path(arg)
             std_out_s == IF arg \in {W_echo, W_exit, W_type, W_pwd, W_cd}
                          THEN arg \o <<" is a shell builtin">>
                          ELSE IF path # None THEN arg \o <<" is ">> \o path[1]
                          ELSE <<>>
             std_err_s == IF arg \notin {W_echo, W_exit, W_type, W_pwd, W_cd}
                             /\ path = None
                          THEN arg \o <<" not found">> ELSE <<>>
         IN  handle_built_in_output(std_out_s, std_out_file, std_out_r_append,
                                    std_err_s, std_err_file, std_err_r_append, env)

\* a slip: `arg.parse::<i32>().unwrap_or(0)`, a word that is no number gives 0
exit_built_in_or_zero(parts) ==
    IF parts # <<>> /\ parse_i32(parts[1]) # None THEN parse_i32(parts[1])[1] ELSE 0

\* lines 496-513: the status the `exit` built-in calls std::process::exit with
exit_built_in(parts) ==
    IF parts # <<>>
    THEN LET exit_code_arg == parse_i32(parts[1])
         IN  IF exit_code_arg # None THEN exit_code_arg[1] ELSE 1
    ELSE 0

\* fn run_single_command(command_args, stdin_pipe, std_out_file, std_out_r_append,
\*                       std_err_file, std_err_r_append, is_last) -> Option<ChildStdout>
run_single_command(command_args, stdin_pipe, std_out_file, std_out_r_append, std_err_file, std_err_r_append, is_last, env) ==
    LET command == command_args[1]
        parts == Tail(command_args)
    IN  IF command \in {W_echo, W_pwd, W_type} THEN
            IF ~is_last THEN
                [NoResult EXCEPT !.eff.err =
                    <<<<"Built-in command '">> \o command
                      \o <<"' in a pipe: Not supported.">>>>]
            ELSE IF command = W_echo THEN
                [NoResult EXCEPT !.eff =
                    handle_built_in_output(join(parts, <<SPACE>>), std_out_file,
                                           std_out_r_append, <<>>, std_err_file,
                                           std_err_r_append, env)]
            ELSE IF command = W_pwd THEN
                [NoResult EXCEPT !.eff =
                    IF env.getcwd
                    THEN handle_built_in_output(cwd, std_out_file, std_out_r_append,
                                                <<>>, std_err_file, std_err_r_append, env)
                    ELSE handle_built_in_output(<<>>, std_out_file, std_out_r_append,
                                                <<"Failed to get current directory">>,
                                                std_err_file, std_err_r_append, env)]
            ELSE
                [NoResult EXCEPT !.eff =
                    type_built_in(parts, std_out_file, std_out_r_append,
                                  std_err_file, std_err_r_append, env)]
        ELSE IF command \in {W_exit, W_cd} THEN
            IF stdin_pipe = None THEN
                IF command = W_cd THEN
                    IF parts # <<>>
                    THEN LET cd == change_directory(parts[1], env)
                         IN  [NoResult EXCEPT !.cwd = cd.cwd, !.eff.err = cd.err]
                    ELSE NoResult
                ELSE [NoResult EXCEPT !.exit = Some(exit_built_in(parts))]
            ELSE NoResult
        ELSE
            execute_piped(command, parts, stdin_pipe, std_out_file, std_out_r_append,
                          std_err_file, std_err_r_append, ~is_last, env)

--------------------------------------------------------------------------
(* The lines typed at the prompt *)

\* the longest pipeline typed
MaxStages == 2

W_ls == <<"ls">>
W_nosuch == <<"nosuch">>
W_p == <<"/p">>
W_7 == <<"7">>
W_minus_1 == <<"-", "1">>
\* ten digits: more than an i32 holds
W_9999999999 == <<"9", "9", "9", "9", "9", "9", "9", "9", "9", "9">>

\* the spellings of a truncating redirection, which the scan does not compare against
OP_TRUNC == <<GT>>
OP_TRUNC_1 == <<"1", GT>>
OP_TRUNC_2 == <<"2", GT>>

STDOUT_OPS == {OP_TRUNC, OP_TRUNC_1, OP_APPEND, OP_APPEND_1}
STDERR_OPS == {OP_TRUNC_2, OP_APPEND_2}
TRUNC_OPS == {OP_TRUNC, OP_TRUNC_1, OP_TRUNC_2}
REDIRECT_OPS == STDOUT_OPS \cup STDERR_OPS

\* a segment: a command name, an argument and a redirection, each possibly absent
SegmentText(head, arg, redir) ==
    join(SelectSeq(<<head, arg, redir>>, LAMBDA w : w # <<>>), <<SPACE>>)

\* a line of one command: every built-in, a program on PATH and one that is
\* not; a plain argument, a quoted operator, a quoted bar, numbers, two
\* arguments, the home directory; every operator spelling with a target, and an
\* operator without one
SingleHeads == {<<>>, W_echo, W_pwd, W_type, W_cd, W_exit, W_ls, W_nosuch}
SingleArgs == {<<>>, W_p, <<DQUOTE, GT, GT, DQUOTE>>, <<SQUOTE, BAR, SQUOTE>>,
               W_7, W_minus_1, W_9999999999, W_7 \o <<SPACE>> \o W_p, W_tilde}
SingleRedirs ==
    {<<>>, OP_APPEND, OP_APPEND_2} \cup {op \o <<SPACE>> \o W_p : op \in REDIRECT_OPS}
SingleLines ==
    {SegmentText(h, a, r) : h \in SingleHeads, a \in SingleArgs, r \in SingleRedirs}

\* a segment of a longer pipeline: nothing, a built-in that prints, the two
\* built-ins that change the shell, a program on PATH and one that is not;
\* no redirection, an operator without a target, stdout and stderr redirected
PipeCommands == {<<>>, W_echo \o <<SPACE>> \o W_p, W_cd \o <<SPACE>> \o W_p,
                 W_exit, W_ls, W_nosuch}
PipeRedirs == {<<>>, OP_APPEND, OP_APPEND \o <<SPACE>> \o W_p,
               OP_APPEND_2 \o <<SPACE>> \o W_p}
PipeSegments == {SegmentText(c, <<>>, r) : c \in PipeCommands, r \in PipeRedirs}

RECURSIVE PipeLines(_)
\* the lines of exactly n segments
PipeLines(n) ==
    IF n = 1 THEN PipeSegments
    ELSE {s \o <<SPACE, BAR, SPACE>> \o rest :
              s \in PipeSegments, rest \in PipeLines(n - 1)}

Lines == SingleLines \cup UNION {PipeLines(n) : n \in 2..MaxStages}

--------------------------------------------------------------------------
(* The state machine *)

START_DIR == <<"/">>

Init ==
    /\ pc = "readline"
    /\ line = <<>>
    /\ commands = <<>>
    /\ ith_command = 0
    /\ prev_output = None
    /\ cwd = START_DIR
    /\ exit_code = None
    /\ children = <<>>
    /\ stages = <<>>
    /\ term_out = <<>>
    /\ term_err = <<>>
    /\ opened = <<>>
    /\ written = <<>>
    /\ waiting = None
    /\ fds = {}
    /\ lex = arg_parse_idle

\* main, line 654: the loop starts over.  The locals of run_command are gone,
\* and what the model records of the last line (the terminal, the files, the
\* stages, the processes) starts empty.
main_loop ==
    /\ pc = "loop"
    /\ pc' = "readline"
    /\ children' = <<>>
    /\ stages' = <<>>
    /\ term_out' = <<>>
    /\ term_err' = <<>>
    /\ opened' = <<>>
    /\ written' = <<>>
    /\ line' = <<>>
    /\ commands' = <<>>
    /\ ith_command' = 0
    /\ prev_output' = None
    /\ UNCHANGED <<cwd, exit_code, waiting, fds, lex>>

\* main, lines 656-663: readline returns Ok(line); run_command starts (332-334).
\* The history of the line editor is not part of the model.
main_readline_ok ==
    /\ pc = "readline"
    /\ \E l \in Lines :
          /\ line' = l
          /\ commands' = split(l, BAR)
    /\ ith_command' = 0
    /\ prev_output' = None
    /\ pc' = "run"
    /\ UNCHANGED <<cwd, exit_code, children, stages, term_out, term_err, opened,
                   written, waiting, fds, lex>>

\* main, lines 665-669: Err(ReadlineError::Interrupted), continue
main_interrupted ==
    /\ pc = "readline"
    /\ term_out' = Append(term_out, <<"^C">>)
    /\ pc' = "loop"
    /\ UNCHANGED <<line, commands, ith_command, prev_output, cwd, exit_code,
                   children, stages, term_err, opened, written, waiting, fds, lex>>

\* main, lines 670-674 and 681: Err(ReadlineError::Eof), break, Ok(())
main_eof ==
    /\ pc = "readline"
    /\ term_out' = Append(term_out, <<"exit">>)
    /\ pc' = "exited"
    /\ exit_code' = Some(0)
    /\ UNCHANGED <<line, commands, ith_command, prev_output, cwd, children,
                   stages, term_err, opened, written, waiting, fds, lex>>

\* main, lines 675-678 and 681: Err(err), break, Ok(())
main_err ==
    /\ pc = "readline"
    /\ term_err' = Append(term_err, <<"Error: ">> \o IO_ERROR)
    /\ pc' = "exited"
    /\ exit_code' = Some(0)
    /\ UNCHANGED <<line, commands, ith_command, prev_output, cwd, children,
                   stages, term_out, opened, written, waiting, fds, lex>>

\* the outcomes of a system call the stage may make; TRUE for one it does not make
Outcomes(made) == IF made THEN BOOLEAN ELSE {TRUE}

EnvOf(command_args, std_out_file, std_err_file) ==
    LET command == command_args[1]
        built_in_output == command \in {W_echo, W_pwd, W_type}
        file == std_out_file # None \/ std_err_file # None
    IN  [open_out : Outcomes(std_out_file # None),
         open_err : Outcomes(std_err_file # None),
         write_ok : Outcomes(built_in_output /\ file),
         spawn : Outcomes(find_executable_in_path(command) # None),
         chdir : Outcomes(command = W_cd),
         getcwd : Outcomes(command = W_pwd),
         home : Outcomes(command = W_cd /\ Len(command_args) > 1
                         /\ command_args[2] = W_tilde)]

\* the end of one iteration of the for loop of run_command, and of the loop
NextCommand ==
    IF ith_command = Len(commands) - 1
    THEN /\ pc' = "loop"
         /\ ith_command' = ith_command
    ELSE /\ pc' = "run"
         /\ ith_command' = ith_command + 1

\* the environment of a stage that makes no system call
NoCalls == [open_out |-> TRUE, open_err |-> TRUE, write_ok |-> TRUE, spawn |-> TRUE,
            chdir |-> TRUE, getcwd |-> TRUE, home |-> TRUE]

StageRecord(cmd_string, raw_args, outcome, scan, argv, env) ==
    [ith |-> ith_command, cmd_string |-> cmd_string, raw_args |-> raw_args,
     outcome |-> outcome, scan |-> scan, argv |-> argv, env |-> env,
     stdin_pipe |-> prev_output,
     is_last |-> (ith_command = Len(commands) - 1)]

\* run_command, lines 336-409: one iteration of the for loop, up to the
\* child.wait() of execute_piped when the call reaches it
run_command_iter ==
    /\ pc = "run"
    /\ LET cmd_string == commands[ith_command + 1]
           raw_args == arg_parse(trim(cmd_string))
           scan == redirect_scan(redirect_scan_init, raw_args)
           is_last == ith_command = Len(commands) - 1
       IN  IF raw_args = <<>> THEN
               \* lines 338-341
               /\ stages' = Append(stages, StageRecord(cmd_string, raw_args, "empty",
                                                       redirect_scan_init, <<>>,
                                                       NoCalls))
               /\ pc' = "loop"
               /\ prev_output' = None
               /\ fds' = drop(PipeHandles(prev_output))
               /\ UNCHANGED <<ith_command, cwd, exit_code, children, term_out,
                              term_err, opened, written, waiting>>
           ELSE IF scan.error_in_parsing \/ scan.command_args = <<>> THEN
               \* lines 387-391
               /\ stages' = Append(stages, StageRecord(cmd_string, raw_args,
                                                       "parse_error", scan, <<>>,
                                                       NoCalls))
               /\ term_out' = Append(term_out, <<"error in parsing amk">>)
               /\ pc' = "loop"
               /\ prev_output' = None
               /\ fds' = drop(PipeHandles(prev_output))
               /\ UNCHANGED <<ith_command, cwd, exit_code, children, term_err,
                              opened, written, waiting>>
           ELSE
               \* lines 394-408
               \E env \in EnvOf(raw_args, scan.std_out_file, scan.std_err_file) :
                  LET r == run_single_command(raw_args, prev_output,
                                              scan.std_out_file, scan.std_out_r_append,
                                              scan.std_err_file, scan.std_err_r_append,
                                              is_last, env)
                  IN  /\ stages' = Append(stages, StageRecord(cmd_string, raw_args,
                                                              "run", scan, raw_args,
                                                              env))
                      /\ term_out' = term_out \o r.eff.out
                      /\ term_err' = term_err \o r.eff.err
                      /\ opened' = opened \o r.eff.opened
                      /\ written' = written \o r.eff.written
                      /\ cwd' = r.cwd
                      /\ children' =
                            IF r.spawn = None THEN children
                            ELSE Append(children,
                                        [stage |-> ith_command, proc |-> r.spawn[1],
                                         state |-> "running", waited |-> FALSE])
                      /\ IF r.exit # None THEN
                             /\ exit_code' = r.exit
                             /\ pc' = "exited"
                             \* no destructor runs: what was open stays open
                             \* until the operating system ends the process
                             /\ UNCHANGED <<ith_command, prev_output, waiting, fds>>
                         ELSE IF r.wait THEN
                             /\ pc' = "wait"
                             /\ waiting' = Some(Len(children) + 1)
                             /\ prev_output' = r.ret
                             \* prev_output.take() moved the pipe into the call
                             /\ fds' = r.held \cup PipeHandles(r.ret)
                             /\ UNCHANGED <<ith_command, exit_code>>
                         ELSE
                             /\ prev_output' = r.ret
                             \* the call returned: its parameters and locals are
                             \* dropped, what it returns moves to prev_output
                             /\ fds' = drop(PipeHandles(prev_output) \cup r.held)
                                       \cup PipeHandles(r.ret)
                             /\ NextCommand
                             /\ UNCHANGED <<exit_code, waiting>>
    /\ UNCHANGED <<line, commands, lex>>

\* execute_piped, lines 620-626: child.wait() returns once the child has
\* exited, with Ok or (line 622) with an error that is printed; either way the
\* call returns pipe_output and the loop of run_command goes on
child_wait ==
    /\ pc = "wait"
    /\ children[waiting[1]].state = "exited"
    /\ \E ok \in BOOLEAN :
          term_err' = IF ok THEN term_err
                      ELSE Append(term_err, <<"Execution error: ">> \o IO_ERROR)
    /\ children' = [children EXCEPT ![waiting[1]].state = "reaped",
                                    ![waiting[1]].waited = TRUE]
    /\ waiting' = None
    \* execute_piped returns: process_command and child go out of scope
    /\ fds' = drop(fds)
    /\ NextCommand
    /\ UNCHANGED <<line, commands, prev_output, cwd, exit_code, stages, term_out,
                   opened, written, lex>>

\* a process the shell spawned for the current line ends, at a time of its own
child_exit ==
    /\ \E k \in 1..Len(children) :
          /\ children[k].state = "running"
          /\ children' = [children EXCEPT ![k].state = "exited"]
    /\ UNCHANGED <<pc, line, commands, ith_command, prev_output, cwd, exit_code,
                   stages, term_out, term_err, opened, written, waiting, fds, lex>>

\* the variables of the shell process, all but the call of arg_parse followed
\* on its own
shell_vars == <<pc, line, commands, ith_command, prev_output, cwd, exit_code,
                children, stages, term_out, term_err, opened, written, waiting, fds>>

Next ==
    \/ main_loop
    \/ main_readline_ok
    \/ main_interrupted
    \/ main_eof
    \/ main_err
    \/ run_command_iter
    \/ child_wait
    \/ child_exit

Spec == Init /\ [][Next]_vars

\* the process spawned for the last stage of the line ends
last_child_exit ==
    /\ \E k \in 1..Len(children) :
          /\ children[k].stage = Len(commands) - 1
          /\ children[k].state = "running"
          /\ children' = [children EXCEPT ![k].state = "exited"]
    /\ UNCHANGED <<pc, line, commands, ith_command, prev_output, cwd, exit_code,
                   stages, term_out, term_err, opened, written, waiting, fds, lex>>

\* a step of run_command_iter, told by what it alone does: each of its
\* branches appends the stage it ran to stages, and no other action changes
\* stages while pc = "run"
run_command_step ==
    pc = "run" /\ Len(stages') = Len(stages) + 1

\* run_command_step is the step of run_command_iter and of nothing else
run_command_step_is_iter ==
    [][run_command_step <=> run_command_iter]_vars

\* Weak fairness of run_command_iter, WF_vars(run_command_iter), written out:
\* the one guard of the action is pc = "run", which stands for
\* ENABLED <<run_command_iter>>_vars, and run_command_step for its step.
run_command_progress ==
    []<>(pc # "run") \/ []<><<run_command_step>>_vars

\* The shell with its progress: the shell process is scheduled, so that it
\* takes the step it is at whenever it can (the next iteration of run_command,
\* the return of child.wait() once the child has ended, the next turn of the
\* loop of main); and the process of the last stage of a line ends.  Nothing
\* is assumed of the processes of the stages before it, nor of the line editor.
LiveSpec ==
    /\ Init
    /\ [][Next]_vars
    /\ run_command_progress
    /\ WF_vars(child_wait)
    /\ WF_vars(main_loop)
    /\ WF_vars(last_child_exit)

--------------------------------------------------------------------------
(* arg_parse on its own: called with any line of a few characters *)

\* the longest line arg_parse is called with
MaxLineLen == 5

\* an ordinary character, whitespace, the two quotes and the backslash
LexChars == {"a", SPACE, DQUOTE, SQUOTE, BACKSLASH}

RECURSIVE Strings(_, _)
\* the sequences of at most n elements of S
Strings(S, n) ==
    IF n = 0 THEN {<<>>}
    ELSE LET shorter == Strings(S, n - 1)
         IN  shorter \cup {Append(t, c) : t \in {u \in shorter : Len(u) = n - 1}, c \in S}

LexLines == Strings(LexChars, MaxLineLen)

LexInit ==
    /\ pc = "readline"
    /\ line = <<>>
    /\ commands = <<>>
    /\ ith_command = 0
    /\ prev_output = None
    /\ cwd = START_DIR
    /\ exit_code = None
    /\ children = <<>>
    /\ stages = <<>>
    /\ term_out = <<>>
    /\ term_err = <<>>
    /\ opened = <<>>
    /\ written = <<>>
    /\ waiting = None
    /\ fds = {}
    /\ \E l \in LexLines : lex = arg_parse_call(l)

\* lines 270-321: one iteration of `for c in line.chars()`
arg_parse_step ==
    /\ lex.ret = None
    /\ lex.i < Len(lex.line)
    /\ lex' = [lex EXCEPT !.st = arg_parse_char(lex.st, lex.line[lex.i + 1]),
                          !.i = @ + 1]
    /\ UNCHANGED shell_vars

\* lines 323-327: the loop is over, arg_parse returns args
arg_parse_return ==
    /\ lex.ret = None
    /\ lex.i = Len(lex.line)
    /\ lex' = [lex EXCEPT !.ret = Some(arg_parse_end(lex.st))]
    /\ UNCHANGED shell_vars

LexNext ==
    \/ arg_parse_step
    \/ arg_parse_return

LexSpec == LexInit /\ [][LexNext]_vars

--------------------------------------------------------------------------
(* What the specification of the shell says of a line, for the properties *)

RECURSIVE UnquotedCount(_, _, _, _)
\* how many times character c occurs in text outside every quoted region and
\* not after an escaping backslash; q is the open quote, esc whether the
\* previous character was an escaping backslash
UnquotedCount(text, c, q, esc) ==
    IF text = <<>> THEN 0
    ELSE LET h == Head(text)
             t == Tail(text)
         IN  IF esc THEN UnquotedCount(t, c, q, FALSE)
             ELSE IF h = BACKSLASH /\ q # Some(SQUOTE) THEN UnquotedCount(t, c, q, TRUE)
             ELSE IF q = None /\ h \in {DQUOTE, SQUOTE} THEN UnquotedCount(t, c, Some(h), FALSE)
             ELSE IF q = Some(h) THEN UnquotedCount(t, c, None, FALSE)
             ELSE (IF q = None /\ h = c THEN 1 ELSE 0) + UnquotedCount(t, c, q, FALSE)

\* the text uses no quote and no backslash
Plain(text) == \A i \in 1..Len(text) : text[i] \notin {DQUOTE, SQUOTE, BACKSLASH}

RECURSIVE SpecScan(_, _)
\* the redirection scan as specified: each of the six operators takes the next
\* word as its target, the other words are argv
SpecScan(st, words) ==
    IF words = <<>> THEN st
    ELSE IF Head(words) \in REDIRECT_OPS THEN
        IF Len(words) = 1 THEN [st EXCEPT !.error = TRUE]
        ELSE IF Head(words) \in STDOUT_OPS
        THEN SpecScan([st EXCEPT !.out = Some(words[2]),
                                 !.out_append = Head(words) \notin TRUNC_OPS],
                      Tail(Tail(words)))
        ELSE SpecScan([st EXCEPT !.err = Some(words[2]),
                                 !.err_append = Head(words) \notin TRUNC_OPS],
                      Tail(Tail(words)))
    ELSE SpecScan([st EXCEPT !.argv = Append(@, Head(words))], Tail(words))

SpecStage(words) ==
    SpecScan([out |-> None, out_append |-> FALSE, err |-> None, err_append |-> FALSE,
              argv |-> <<>>, error |-> FALSE], words)

\* the line is a pipeline as specified: typed without quotes, and every segment
\* of it has a command name and a target for each operator
WellFormed(l) ==
    /\ Plain(l)
    /\ LET segs == split(l, BAR) IN
       \A k \in 1..Len(segs) :
           LET sp == SpecStage(arg_parse(trim(segs[k])))
           IN  ~sp.error /\ sp.argv # <<>>

\* the iterations of run_command made so far for the current line
Stages == {stages[k] : k \in 1..Len(stages)}
Children == {children[k] : k \in 1..Len(children)}

\* the current line hit a parse error: a segment without a word, an operator
\* without a target, or no word left for argv
ParseFailed == \E s \in Stages : s.outcome \in {"empty", "parse_error"}

\* the index of the last stage of the current line
LastStage == Len(commands) - 1

--------------------------------------------------------------------------
(* Properties *)

\* C1: in every stage typed without quotes, each of the six operator words
\* `>`, `1>`, `2>`, `>>`, `1>>`, `2>>` followed by a word sets the redirection
\* of its descriptor to that word: stdout for `>`, `1>`, `>>`, `1>>`, stderr for
\* `2>`, `2>>`; truncating for the forms with one `>`, appending for the others.
C1_SixOperators ==
    \A s \in Stages :
        (Plain(s.cmd_string) /\ s.raw_args # <<>> /\ ~SpecStage(s.raw_args).error) =>
            LET sp == SpecStage(s.raw_args) IN
            /\ s.scan.std_out_file = sp.out
            /\ s.scan.std_err_file = sp.err
            /\ (sp.out # None => s.scan.std_out_r_append = sp.out_append)
            /\ (sp.err # None => s.scan.std_err_r_append = sp.err_append)

\* C2: in every stage typed without quotes and with append operators only, the
\* argument list the command is invoked with is the words of the segment that
\* are neither an operator nor an operator's target, in their order; and what
\* an `echo` stage writes into a file is those arguments after the command name.
C2_ArgvWithoutRedirections ==
    \A s \in Stages :
        (s.outcome = "run" /\ Plain(s.cmd_string)
         /\ \A i \in 1..Len(s.raw_args) : s.raw_args[i] \notin TRUNC_OPS) =>
            /\ s.argv = SpecStage(s.raw_args).argv
            /\ (s.raw_args[1] = W_echo =>
                    \A i \in 1..Len(written) :
                        written[i].text = join(Tail(SpecStage(s.raw_args).argv), <<SPACE>>))

\* C3: the line is split into one stage more than it has `|` outside quotes: a
\* `|` inside quotes separates nothing.
C3_QuotedBarKeepsStages ==
    pc \in {"run", "wait"} =>
        Len(commands) = UnquotedCount(line, BAR, None, FALSE) + 1

\* C4: a stage with no `>` outside quotes has no redirection: every word of it,
\* a quoted `>>` included, is an ordinary argument.
C4_QuotedOperatorIsArgument ==
    \A s \in Stages :
        (s.raw_args # <<>> /\ UnquotedCount(s.cmd_string, GT, None, FALSE) = 0) =>
            /\ s.scan.std_out_file = None
            /\ s.scan.std_err_file = None
            /\ ~s.scan.error_in_parsing
            /\ s.scan.command_args = s.raw_args

\* C5: when a stage of the line is a parse error, no stage of the line is
\* executed: no process is spawned, no built-in is invoked, no file is opened.
C5_ParseErrorRunsNothing ==
    ParseFailed =>
        /\ children = <<>>
        /\ \A s \in Stages : s.outcome = "run" => s.argv[1] \notin BUILTINS
        /\ opened = <<>>

\* C6: a non-empty line, typed without quotes, that hits a parse error (an
\* empty segment such as that of `ls |` included) prints exactly one parse
\* diagnostic, and the shell goes on to the next prompt.
C6_ParseErrorOneDiagnostic ==
    (ParseFailed /\ line # <<>> /\ Plain(line)) =>
        /\ pc = "loop"
        /\ Cardinality({i \in 1..Len(term_out) : term_out[i] = <<"error in parsing amk">>})
           + Cardinality({i \in 1..Len(term_err) : term_err[i] = <<"error in parsing amk">>})
           = 1

\* C7: while a well-formed pipeline of two or more stages is run, no step
\* changes the working directory and none ends the shell process.
C7_PipelineKeepsShellState ==
    [][(pc \in {"run", "wait"} /\ WellFormed(line) /\ Len(commands) >= 2) =>
           (cwd' = cwd /\ pc' # "exited")]_vars

\* C8: in a well-formed pipeline, a process spawned for a stage after the first
\* never inherits the stdin of the shell, also when the stage before it is a
\* built-in or a command that is not found: its stdin is the pipe of the stage
\* before it or empty.
C8_DownstreamStdinNotInherited ==
    WellFormed(line) =>
        \A c \in Children :
            (c.stage > 0 /\ stages[c.stage].argv[1] \notin PATH_EXECUTABLES) =>
                c.proc.stdin # None

\* C9: when run_command has returned, the process spawned for the last stage
\* of the line, if any, has exited and has been waited for, whether or not it
\* got a pipe as stdin.
C9_LastChildWaited ==
    pc = "loop" =>
        \A c \in Children : c.stage = LastStage => (c.waited /\ c.state = "reaped")

\* C9 witness: run_command has returned from a line whose last stage was
\* spawned with the pipe of the stage before it as stdin, and was waited for.
C9_Witness ==
    /\ pc = "loop"
    /\ \E c \in Children :
          c.stage = LastStage /\ c.stage > 0 /\ c.proc.stdin # None /\ c.waited

\* C10: when run_command has returned from a well-formed pipeline, every
\* process spawned for the line has been waited for.
C10_EveryChildWaited ==
    (pc = "loop" /\ WellFormed(line)) => \A c \in Children : c.waited

C12_NotFoundOnStderr ==
    \A s \in Stages :
        (s.outcome = "run" /\ s.argv[1] \notin BUILTINS
         /\ find_executable_in_path(s.argv[1]) = None) =>
            LET diagnostic == s.argv[1] \o <<": command not found">> IN
            /\ \E i \in 1..Len(term_err) : term_err[i] = diagnostic
            /\ \A i \in 1..Len(term_out) : term_out[i] # diagnostic
            /\ \A c \in Children : c.stage # s.ith
            /\ (Len(commands) = 1 => opened = <<>>)

\* C13: a line of one stage that invokes `echo` writes to its stdout sink one
\* line, the arguments after the command name joined by single spaces: on the
\* terminal when stdout is not redirected, into the file when it is and the
\* file can be opened and written.  With no arguments that line is empty: a
\* newline and nothing else.
C13_EchoWritesLine ==
    \A s \in Stages :
        (s.outcome = "run" /\ Len(commands) = 1 /\ s.argv[1] = W_echo) =>
            LET text == join(Tail(s.argv), <<SPACE>>) IN
            IF s.scan.std_out_file = None
            THEN term_out = <<text>>
            ELSE (s.env.open_out /\ s.env.write_ok) =>
                     written = <<[path |-> s.scan.std_out_file[1], text |-> text]>>

--------------------------------------------------------------------------
(* The lexer as the specification of the shell tabulates it: five states, *)
(* and a word that remembers whether a character or a quoted fragment has *)
(* occurred for it.                                                       *)

SpecLexInit == [words |-> <<>>, word |-> <<>>, started |-> FALSE, state |-> "UNQUOTED"]

SpecLexChar(st, c) ==
    CASE st.state = "UNQUOTED" ->
            IF c = BACKSLASH THEN [st EXCEPT !.state = "ESCAPED_UNQ"]
            ELSE IF c = SQUOTE THEN [st EXCEPT !.state = "SQUOTED", !.started = TRUE]
            ELSE IF c = DQUOTE THEN [st EXCEPT !.state = "DQUOTED", !.started = TRUE]
            ELSE IF IsWhitespace(c) THEN
                IF st.started
                THEN [st EXCEPT !.words = Append(@, st.word), !.word = <<>>,
                                !.started = FALSE]
                ELSE st
            ELSE [st EXCEPT !.word = @ \o <<c>>, !.started = TRUE]
      [] st.state = "SQUOTED" ->
            IF c = SQUOTE THEN [st EXCEPT !.state = "UNQUOTED"]
            ELSE [st EXCEPT !.word = @ \o <<c>>]
      [] st.state = "DQUOTED" ->
            IF c = BACKSLASH THEN [st EXCEPT !.state = "ESCAPED_DQ"]
            ELSE IF c = DQUOTE THEN [st EXCEPT !.state = "UNQUOTED"]
            ELSE [st EXCEPT !.word = @ \o <<c>>]
      [] st.state = "ESCAPED_UNQ" ->
            [st EXCEPT !.word = @ \o <<c>>, !.started = TRUE, !.state = "UNQUOTED"]
      [] st.state = "ESCAPED_DQ" ->
            [st EXCEPT !.word = IF c \in {DQUOTE, BACKSLASH} THEN @ \o <<c>>
                                ELSE @ \o <<BACKSLASH, c>>,
                       !.state = "DQUOTED"]

RECURSIVE SpecLexLoop(_, _)
SpecLexLoop(st, rest) ==
    IF rest = <<>> THEN st
    ELSE SpecLexLoop(SpecLexChar(st, Head(rest)), Tail(rest))

\* the words of a line as specified; a quote still open at the end is closed there
SpecLex(l) ==
    LET st == SpecLexLoop(SpecLexInit, l)
    IN  IF st.started THEN Append(st.words, st.word) ELSE st.words

\* every quote of the line is closed, and no backslash ends it
Terminated(l) == SpecLexLoop(SpecLexInit, l).state = "UNQUOTED"

HasEmptyWord(words) == \E i \in 1..Len(words) : words[i] = <<>>

\* C14: for a line whose quotes are all closed, arg_parse returns an empty word
\* exactly when a word of the line consists of empty quoted fragments only
\* (`""`, `''`), and returns no word at all for a line of whitespace.
C14_EmptyQuotedWordKept ==
    (lex.ret # None /\ Terminated(lex.line)) =>
        /\ HasEmptyWord(lex.ret[1]) <=> HasEmptyWord(SpecLex(lex.line))
        /\ (\A i \in 1..Len(lex.line) : IsWhitespace(lex.line[i])) => lex.ret[1] = <<>>

\* the most words a list of words has
MaxWords == 3

\* the words without whitespace, quote and backslash, the empty word included
PlainWords == Strings({"a"}, MaxLineLen)
WordLists == Strings(PlainWords, MaxWords)

\* C15 as stated: for every list W of words without whitespace, quote and
\* backslash, arg_parse of the words joined by single spaces returns W.
C15_RoundTrip ==
    lex.ret # None =>
        \A W \in WordLists : join(W, <<SPACE>>) = lex.line => lex.ret[1] = W

\* C15 as amended: for every list W of non-empty words without whitespace,
\* quote and backslash, arg_parse of the words joined by single spaces returns W.
C15_RoundTripNonEmpty ==
    lex.ret # None =>
        \A W \in WordLists :
            ((\A i \in 1..Len(W) : W[i] # <<>>) /\ join(W, <<SPACE>>) = lex.line) =>
                lex.ret[1] = W

\* C15 witness: arg_parse has returned from a line that is two or more non-empty
\* words joined by single spaces.
C15_Witness ==
    /\ lex.ret # None
    /\ \E W \in WordLists :
          /\ Len(W) >= 2
          /\ \A i \in 1..Len(W) : W[i] # <<>>
          /\ join(W, <<SPACE>>) = lex.line

\* C16: a line of one stage that invokes `exit` ends the shell process: with
\* status 0 when `exit` has no argument, with status n when its first argument
\* parses as the signed integer n, with status 1 when it does not parse,
\* whatever arguments follow; and once the process has ended, no line is read and
\* the shell changes nothing.
C16_ExitStatus ==
    /\ [](\A s \in Stages :
             (s.outcome = "run" /\ Len(commands) = 1 /\ s.argv[1] = W_exit) =>
                 /\ pc = "exited"
                 /\ exit_code =
                       Some(IF Len(s.argv) = 1 THEN 0
                            ELSE IF parse_i32(s.argv[2]) # None
                                 THEN parse_i32(s.argv[2])[1]
                                 ELSE 1))
    /\ [][pc = "exited" =>
              (pc' = "exited" /\ line' = line /\ cwd' = cwd /\ exit_code' = exit_code
               /\ term_out' = term_out /\ term_err' = term_err)]_vars

\* C16 witness: `exit 7 /p` has ended the shell process with status 7.
C16_Witness ==
    /\ pc = "exited"
    /\ exit_code = Some(7)
    /\ \E s \in Stages : s.argv[1] = W_exit /\ Len(s.argv) = 3 /\ Len(commands) = 1

\* C17: once the shell process has ended after an error of the line editor
\* that is neither an interrupt nor the end of the input, which it reported on
\* stderr, its exit status is not 0.
C17_EditorErrorStatus ==
    (pc = "exited" /\ term_err # <<>>
     /\ term_err[Len(term_err)] = <<"Error: ">> \o IO_ERROR) =>
        exit_code # Some(0)

\* the `cd` built-in, invoked with this argument under this environment, cannot
\* enter its target: HOME is unset for `~`, or the target is no directory, or
\* the operating system refuses
CannotEnter(arg, env) ==
    IF arg = W_tilde
    THEN ~env.home \/ HOME_DIR \notin DIRECTORIES \/ ~env.chdir
    ELSE arg \notin DIRECTORIES \/ ~env.chdir

\* C18: a step changes the working directory only if it executes the `cd`
\* built-in with an argument; and a step that executes `cd` with a target that
\* cannot be entered leaves the working directory as it is and prints one
\* diagnostic on stderr: `cd: HOME not set` for `~` without HOME, and else
\* `cd: <arg>: No such file or directory`.
C18_CdFailureKeepsCwd ==
    [][LET s == stages'[Len(stages')]
           cd_executed == /\ pc = "run"
                          /\ Len(stages') = Len(stages) + 1
                          /\ s.outcome = "run"
                          /\ s.argv[1] = W_cd
                          /\ s.stdin_pipe = None
                          /\ Len(s.argv) > 1
       IN  /\ cwd' # cwd => cd_executed
           /\ (cd_executed /\ CannotEnter(s.argv[2], s.env)) =>
                  /\ cwd' = cwd
                  /\ term_err' =
                        Append(term_err,
                               IF s.argv[2] = W_tilde /\ ~s.env.home
                               THEN <<"cd: HOME not set">>
                               ELSE <<"cd: ">> \o s.argv[2]
                                    \o <<": No such file or directory">>)]_vars

\* C18 witness: after a `cd` that entered /p, `cd ~` was executed with HOME
\* unset: the working directory is still /p and the diagnostic is on stderr.
C18_Witness ==
    /\ cwd = W_p
    /\ term_err = <<<<"cd: HOME not set">>>>
    /\ \E s \in Stages : s.outcome = "run" /\ s.argv = <<W_cd, W_tilde>> /\ ~s.env.home

\* C19: in every iteration of the loop of arg_parse on a character c:
\* inside single quotes, c other than the closing quote, a backslash or a `"`
\* included, is pushed to the current word and nothing else changes; inside
\* double quotes a backslash pushes nothing and takes the next character, which
\* pushes itself alone when it is `"` or a backslash, and the backslash and
\* itself otherwise; in each of these steps no word is finished and the quote
\* stays open.
C19_QuoteRules ==
    [][(lex.ret = None /\ lex.i < Len(lex.line)) =>
          LET c == lex.line[lex.i + 1]
              st == lex.st
              st2 == lex'.st
          IN  /\ (st.quote_char = Some(SQUOTE) /\ c # SQUOTE) =>
                     st2 = [st EXCEPT !.current_arg = @ \o <<c>>]
              /\ (st.quote_char = Some(DQUOTE) /\ ~st.escaped /\ c = BACKSLASH) =>
                     st2 = [st EXCEPT !.escaped = TRUE]
              /\ (st.quote_char = Some(DQUOTE) /\ st.escaped) =>
                     st2 = [st EXCEPT !.escaped = FALSE,
                                      !.current_arg =
                                          IF c \in {DQUOTE, BACKSLASH}
                                          THEN @ \o <<c>>
                                          ELSE @ \o <<BACKSLASH, c>>]]_vars

\* C19 witness: arg_parse has returned from the line `"\a\"`: inside the double
\* quotes `\a` pushed the backslash and the `a`, `\"` pushed the quote alone
\* and left the quote open.
C19_Witness ==
    /\ lex.line = <<DQUOTE, BACKSLASH, "a", BACKSLASH, DQUOTE>>
    /\ lex.st.quote_char = Some(DQUOTE)
    /\ lex.ret = Some(<<<<BACKSLASH, "a", DQUOTE>>>>)

\* C20: in every iteration of the loop of arg_parse on a character c, a word is
\* finished only when c is whitespace outside quotes and not after a backslash,
\* and then it is the current word as it stands; whitespace inside quotes or
\* right after a backslash outside quotes is pushed to the current word; a quote
\* that opens or closes leaves the current word and the finished words as they
\* are, so that what precedes and what follows it is one word.  And arg_parse
\* always returns: from a line that ends inside a quote, what it returns from
\* the line with the closing quote added.
C20_WordBreaks ==
    /\ [][(lex.ret = None /\ lex.i < Len(lex.line)) =>
             LET c == lex.line[lex.i + 1]
                 st == lex.st
                 st2 == lex'.st
                 unquoted_space == IsWhitespace(c) /\ st.quote_char = None /\ ~st.escaped
                 quote_mark == /\ c \in {DQUOTE, SQUOTE}
                               /\ ~st.escaped
                               /\ st.quote_char \in {None, Some(c)}
             IN  /\ st2.args # st.args =>
                        /\ unquoted_space
                        /\ st2.args = Append(st.args, st.current_arg)
                        /\ st2.current_arg = <<>>
                 /\ (unquoted_space /\ st.current_arg # <<>>) => st2.args # st.args
                 /\ (IsWhitespace(c) /\ ~st.escaped /\ st.quote_char # None) =>
                        st2.current_arg = st.current_arg \o <<c>>
                 /\ (IsWhitespace(c) /\ st.escaped /\ st.quote_char = None) =>
                        st2.current_arg = st.current_arg \o <<c>>
                 /\ quote_mark => (st2.current_arg = st.current_arg /\ st2.args = st.args)]_vars
    /\ [](lex.i = Len(lex.line) => ENABLED arg_parse_return \/ lex.ret # None)
    /\ []((lex.ret # None /\ lex.st.quote_char # None /\ ~lex.st.escaped) =>
             lex.ret[1] = arg_parse(lex.line \o lex.st.quote_char))

\* C20 witness: arg_parse has returned from the line `a" a`, which ends inside
\* a quote: one word, the `a` before the quote, the space and the `a` inside it.
C20_Witness ==
    /\ lex.line = <<"a", DQUOTE, SPACE, "a">>
    /\ lex.ret = Some(<<<<"a", SPACE, "a">>>>)

\* C21: in every step that runs a stage before the last whose command is a
\* program found on PATH, the file of a stdout redirection the scan found is not
\* opened (so neither created nor truncated): the only file opened is that of
\* the stderr redirection, if there is one; and the process spawned, if any,
\* has the pipe to the next stage as stdout, the file of the stderr
\* redirection as stderr if there is one and the stderr of the shell if not,
\* never a pipe.
C21_PipeShadowsStdoutRedirect ==
    [][LET s == stages'[Len(stages')]
           external_not_last == /\ pc = "run"
                                /\ Len(stages') = Len(stages) + 1
                                /\ s.outcome = "run"
                                /\ ~s.is_last
                                /\ s.argv[1] \notin BUILTINS
                                /\ find_executable_in_path(s.argv[1]) # None
       IN  external_not_last =>
               /\ opened' = opened \o
                     (IF s.scan.std_err_file = None THEN <<>>
                      ELSE <<open_options(s.scan.std_err_file[1],
                                          s.scan.std_err_r_append, s.env.open_err)>>)
               /\ Len(children') > Len(children) =>
                     LET proc == children'[Len(children')].proc IN
                     /\ proc.stdout = "pipe"
                     /\ proc.stdout_file = None
                     /\ proc.stderr = IF s.scan.std_err_file = None
                                      THEN "inherit" ELSE "file"
                     /\ proc.stderr_file = s.scan.std_err_file]_vars

\* C21 witness: the first stage of a pipeline, with a stdout redirection, was
\* spawned with a pipe as stdout, and no file has been opened for the line.
C21_Witness ==
    \E c \in Children :
        /\ c.stage = 0
        /\ c.proc.create_pipe
        /\ stages[1].scan.std_out_file # None
        /\ c.proc.stdout = "pipe"
        /\ opened = <<>>

\* C22: the shell blocks in child.wait() for the process of the last stage of
\* the line only; and once a line is being run, the shell gets back to the
\* prompt (or its process ends, at an `exit`), given only that the process of
\* the last stage ends: the processes of the stages before it may run forever.
C22_ReturnsToPrompt ==
    /\ [](pc = "wait" => children[waiting[1]].stage = LastStage)
    /\ (pc \in {"run", "wait"}) ~> (pc \in {"readline", "exited"})

\* C22 witness: run_command has returned from a pipeline whose last process was
\* waited for while the process of an earlier stage is still running.
C22_Witness ==
    /\ pc = "loop"
    /\ \E c \in Children : c.stage = LastStage /\ c.state = "reaped"
    /\ \E c \in Children : c.stage < LastStage /\ c.state = "running"

==========================================================================
